---- MODULE Spec2Model ----
(***************************************************************************)
(* The documentation site of sizzle_starter: the CI workflow that installs *)
(* dependencies, builds the static site and deploys it, the site           *)
(* configuration (astro.config.mjs) and the content corpus.                *)
(***************************************************************************)
EXTENDS Integers, Sequences, FiniteSets, TLC

VARIABLES
    events,       \* the repository events delivered so far, oldest first
    runs,         \* the workflow runs started so far, oldest first
    deployments   \* what the hosting target has received, oldest first

vars == <<events, runs, deployments>>

\* Bound: how many repository events one behaviour delivers.
MaxEvents == 2

(***************************************************************************)
(* The workflow file (src/unnamed/part_000)                                *)
(***************************************************************************)

\* `on: [push]`
OnPushAndPullRequest == {"push", "pull_request"}
On == {"push"}

\* The kinds of event a repository can deliver to its workflows.
EventTypes == {"push", "pull_request", "workflow_dispatch"}

\* jobs.deploy.steps, in file order.  No step carries an `if:` or a
\* `continue-on-error:` key, so each has the defaults: it runs only while
\* every earlier step succeeded (`success()`), and its failure fails the job.
CheckoutStep ==
    [name |-> "checkout", kind |-> "uses", action |-> "actions/checkout@v4",
     cond |-> "success", continueOnError |-> FALSE]
InstallStep ==
    [name |-> "Get Dependencies", kind |-> "run", action |-> "npm install",
     cond |-> "success", continueOnError |-> FALSE]
BuildStep ==
    [name |-> "Build Astro site", kind |-> "run", action |-> "npm run build",
     cond |-> "success", continueOnError |-> FALSE]
DeployStep ==
    [name |-> "Deploy", kind |-> "uses", action |-> "cloudflare/wrangler-action@v3",
     cond |-> "success", continueOnError |-> FALSE]

StepsDeployAlways ==
    <<CheckoutStep, InstallStep, BuildStep, [DeployStep EXCEPT !.cond = "always"]>>
StepsDeployBeforeBuild ==
    <<CheckoutStep, InstallStep, DeployStep, BuildStep>>
StepsBuildContinueOnError ==
    <<CheckoutStep, InstallStep, [BuildStep EXCEPT !.continueOnError = TRUE], DeployStep>>
Steps == <<CheckoutStep, InstallStep, BuildStep, DeployStep>>

NSteps == Len(Steps)
StepIndex(name) == CHOOSE i \in 1..NSteps : Steps[i].name = name

\* The inputs of the Deploy step (`with:`).
DeployDir == "dist"
DeployProject == "sizzle-starter-docs"
DeployWith ==
    [apiToken    |-> "secrets.CLOUDFLARE_API_TOKEN",
     accountId   |-> "secrets.CLOUDFLARE_ACCOUNT_ID",
     command     |-> "pages deploy dist --project-name=sizzle-starter-docs",
     gitHubToken |-> "secrets.GITHUB_TOKEN"]

\* The action registers a deployment record with the repository when it is
\* given a repository token (an input left out reads as the empty string).
RegistersDeployment(with) == with.gitHubToken # ""

(***************************************************************************)
(* The site configuration (src/astro.config.mjs)                           *)
(***************************************************************************)

Link(label, link) == [kind |-> "link", label |-> label, link |-> link]
Group(label, collapsed, items) ==
    [kind |-> "group", label |-> label, collapsed |-> collapsed, items |-> items]
Autogenerate(label, directory) ==
    [kind |-> "autogenerate", label |-> label, directory |-> directory]

\* starlight({ sidebar: [...] })
Sidebar ==
    << Group("Start Here", FALSE,
             << Link("Introduction", "/introduction"),
                Link("Getting Started", "/getting-started") >>),
       Autogenerate("Essentials", "essentials"),
       Group("Storage", FALSE,
             << Autogenerate("Local Database", "storage/database") >>),
       Group("Roadmap", TRUE,
             << Link("Roadmap", "/roadmap") >>) >>

\* The document-head tags both versions of the configuration inject.
HeadTags ==
    { [tag |-> "meta", property |-> "og:image",
       content |-> "https://sizzle.lazebny.io/og.jpg?v=1"],
      [tag |-> "meta", property |-> "twitter:image",
       content |-> "https://sizzle.lazebny.io/og.jpg?v=1"] }

\* defineConfig({...}): the fields the build and the deploy depend on.
Config ==
    [site    |-> "https://sizzle.lazebny.io/",
     output  |-> "static",
     adapter |-> "@astrojs/vercel/static",
     title   |-> "Sizzle Starter",
     social  |-> "https://github.com/hawkkiller/sizzle_starter",
     favicon |-> "/favicon.svg",
     logo    |-> [light |-> "./src/assets/logo-light.svg",
                  dark  |-> "./src/assets/logo-dark.svg"],
     head    |-> HeadTags,
     sidebar |-> Sidebar]

\* The earlier version of the configuration (src/unnamed/part_001).
OldSidebar ==
    << Group("Start Here", FALSE,
             << Link("Introduction", "/introduction"),
                Link("Getting Started", "/getting-started") >>),
       Autogenerate("Essentials", "essentials") >>

OldConfig ==
    [site    |-> "https://sizzle.lazebny.io/",
     output  |-> "static",
     adapter |-> "@astrojs/vercel/serverless",
     title   |-> "Sizzle Starter",
     social  |-> "https://github.com/hawkkiller/sizzle_starter",
     favicon |-> "/favicon.svg",
     logo    |-> [light |-> "./src/assets/light-logo.svg",
                  dark  |-> "./src/assets/dark-logo.svg"],
     head    |-> HeadTags,
     sidebar |-> OldSidebar]

\* Where `astro build` writes the site.  No `outDir` is configured; the
\* default is dist, and the Vercel adapters redirect the static output to
\* the Vercel Build Output directory.
OutDir(config) ==
    IF config.adapter \in {"@astrojs/vercel/static", "@astrojs/vercel/serverless"}
        THEN ".vercel/output/static"
        ELSE "dist"

(***************************************************************************)
(* The content corpus (src/src/content/docs/**, src/unnamed/part_002)      *)
(***************************************************************************)

\* One line of a content file, as the front-matter reader sees it.
Fence == [kind |-> "fence", key |-> "", quoted |-> FALSE, text |-> ""]
Text  == [kind |-> "text",  key |-> "", quoted |-> FALSE, text |-> ""]
Field(key, quoted, text) ==
    [kind |-> "field", key |-> key, quoted |-> quoted, text |-> text]

\* src/src/content/docs/storage/database/about.mdx
AboutDoc ==
    [route |-> "/storage/database/about", dir |-> "storage/database",
     lines |-> << Fence,
                  Field("title", FALSE, "About the local database"),
                  Field("description", FALSE, "Database and Drift"),
                  Fence, Text, Text >>]

\* src/src/content/docs/storage/database/define-tables.mdx; the body holds a
\* second fenced block (lines 527-530) that is not front matter.
DefineTablesDoc ==
    [route |-> "/storage/database/define-tables", dir |-> "storage/database",
     lines |-> << Fence,
                  Field("title", TRUE, "Define Tables"),
                  Field("description", TRUE,
                        "Learn how to define tables with Dart and SQL code."),
                  Fence, Text,
                  Fence,
                  Field("title", TRUE, "Accessing Data"),
                  Field("description", TRUE,
                        "Learn how access data in the database using Drift."),
                  Fence, Text >>]

\* src/unnamed/part_002; its location in the repository is not recorded.  The
\* body holds a second fenced block (lines 121-124).
AuthenticationDoc ==
    [route |-> "/unnamed/part_002", dir |-> "unnamed",
     lines |-> << Fence,
                  Field("title", FALSE, "Authentication"),
                  Field("description", FALSE,
                        "Learn how to efficiently manage authentication states in Sizzle Starter using AuthInterceptor, RefreshClient, and TokenStorage."),
                  Fence, Text,
                  Fence,
                  Field("title", TRUE, "Folder Structure"),
                  Field("description", TRUE,
                        "The optimal file and folder organization within the Sizzle Starter architecture."),
                  Fence, Text >>]

\* The documents whose files are part of the sources.
Corpus == {AboutDoc, DefineTablesDoc, AuthenticationDoc}

\* The pages the sidebar links to.  Their files are not among the sources:
\* a Document is {path, title, description, body}.
LinkedDoc(label, route) ==
    [route |-> route, dir |-> "",
     lines |-> << Fence, Field("title", FALSE, label),
                  Field("description", FALSE, label), Fence, Text >>]
IntroductionDoc   == LinkedDoc("Introduction", "/introduction")
GettingStartedDoc == LinkedDoc("Getting Started", "/getting-started")
RoadmapDoc        == LinkedDoc("Roadmap", "/roadmap")
LinkedDocs == {IntroductionDoc, GettingStartedDoc, RoadmapDoc}

\* An input: a new page whose front matter has no title.
UntitledDoc ==
    [route |-> "/storage/database/draft", dir |-> "storage/database",
     lines |-> << Fence, Field("description", FALSE, "Draft"), Fence, Text >>]

\* The index of the fence that closes the front matter opened on line 1
\* (0 when the file does not open with a fence or never closes it).
ClosingFence(lines) ==
    IF Len(lines) = 0 \/ lines[1].kind # "fence" THEN 0
    ELSE IF \E j \in 2..Len(lines) : lines[j].kind = "fence"
        THEN CHOOSE j \in 2..Len(lines) :
                /\ lines[j].kind = "fence"
                /\ \A k \in 2..(j - 1) : lines[k].kind # "fence"
        ELSE 0

\* A YAML scalar: quotes delimit the string and are not part of it.
YamlScalar(line) == line.text

\* The front matter of a file: the key/value pairs between the opening
\* fence on line 1 and the next fence.
FrontMatterDropsLast(lines) ==
    LET j == ClosingFence(lines)
    IN  { [key |-> lines[k].key, value |-> YamlScalar(lines[k])] :
            k \in { i \in 2..(j - 2) : lines[i].kind = "field" } }
FrontMatter(lines) ==
    LET j == ClosingFence(lines)
    IN  { [key |-> lines[k].key, value |-> YamlScalar(lines[k])] :
            k \in { i \in 2..(j - 1) : lines[i].kind = "field" } }

HasField(fm, key) == \E p \in fm : p.key = key /\ p.value # ""
FieldValue(fm, key) == (CHOOSE p \in fm : p.key = key).value

\* The front-matter fields the content schema requires (the schema file,
\* src/content/config.ts, is not among the sources).
RequiredFields == {"title", "description"}

ValidEntry(doc) ==
    \A key \in RequiredFields : HasField(FrontMatter(doc.lines), key)

(***************************************************************************)
(* The commits a push can carry                                            *)
(***************************************************************************)

AllDocs == Corpus \cup LinkedDocs

\* An input: a new page in storage/database whose title repeats that of
\* define-tables.mdx.
SameTitleDoc ==
    [route |-> "/storage/database/define-tables-sql", dir |-> "storage/database",
     lines |-> << Fence, Field("title", TRUE, "Define Tables"),
                  Field("description", FALSE, "Tables in SQL"), Fence, Text >>]

\* The scenario "one Section Get Started with one Link to /get-started":
\* its configuration and its only Document.
ScenarioConfig ==
    [site    |-> "",
     output  |-> "static",
     adapter |-> "",
     title   |-> "Sizzle Starter",
     social  |-> "https://github.com/hawkkiller/sizzle_starter",
     favicon |-> "",
     logo    |-> [light |-> "", dark |-> ""],
     head    |-> {},
     sidebar |-> << Group("Get Started", FALSE,
                          << Link("Get Started", "/get-started") >>) >>]
GetStartedDoc == LinkedDoc("Get Started", "/get-started")

\* The commits pushed while the pipeline is examined, and those pushed
\* while the site configuration and the navigation are examined.
CommitIds == {"full", "noRoadmap", "untitled", "withDist"}
SiteCommitIds == {"full", "oldConfig", "sameTitle", "scenario"}
AllCommitIds == CommitIds \cup SiteCommitIds

\* A commit: its documents, whether a dist directory is checked in, and the
\* config definitions of its history, oldest first.
Commits ==
    [id \in AllCommitIds |->
        CASE id = "full"      ->
                [docs |-> AllDocs, dist |-> FALSE, configs |-> <<OldConfig, Config>>]
          [] id = "noRoadmap" ->
                [docs |-> AllDocs \ {RoadmapDoc}, dist |-> FALSE,
                 configs |-> <<OldConfig, Config>>]
          [] id = "untitled"  ->
                [docs |-> AllDocs \cup {UntitledDoc}, dist |-> FALSE,
                 configs |-> <<OldConfig, Config>>]
          [] id = "withDist"  ->
                [docs |-> AllDocs, dist |-> TRUE, configs |-> <<OldConfig, Config>>]
          [] id = "oldConfig" ->
                [docs |-> AllDocs \ {RoadmapDoc}, dist |-> FALSE,
                 configs |-> <<OldConfig>>]
          [] id = "sameTitle" ->
                [docs |-> AllDocs \cup {SameTitleDoc}, dist |-> FALSE,
                 configs |-> <<OldConfig, Config>>]
          [] id = "scenario"  ->
                [docs |-> {GetStartedDoc}, dist |-> FALSE,
                 configs |-> <<ScenarioConfig>>]]

\* The configuration a build of the commit reads: the file as it stands in
\* the commit, that is the latest definition; earlier ones are history.
ActiveConfigMerged(id) ==
    LET cs == Commits[id].configs
    IN  [cs[Len(cs)] EXCEPT !.logo = cs[1].logo]
ActiveConfig(id) ==
    LET cs == Commits[id].configs
    IN  cs[Len(cs)]

(***************************************************************************)
(* The build: `npm run build` over one commit's content and the config     *)
(***************************************************************************)

\* The sidebar entries one configured item resolves to, at any depth.  A
\* `link` item is emitted with the href it declares; an `autogenerate` item
\* lists the documents found in its directory, labelled by their titles.
RECURSIVE EntriesFixedListing(_, _)
EntriesFixedListing(item, docs) ==
    CASE item.kind = "link" ->
            { [label |-> item.label, href |-> item.link] }
      [] item.kind = "autogenerate" ->
            { [label |-> FieldValue(FrontMatter(d.lines), "title"), href |-> d.route] :
                d \in { x \in Corpus : x.dir = item.directory } }
      [] item.kind = "group" ->
            UNION { EntriesFixedListing(item.items[i], docs) : i \in 1..Len(item.items) }
EntriesTopLevelOnly(item, docs) ==
    CASE item.kind = "link" ->
            { [label |-> item.label, href |-> item.link] }
      [] item.kind = "autogenerate" ->
            { [label |-> FieldValue(FrontMatter(d.lines), "title"), href |-> d.route] :
                d \in { x \in docs : x.dir = item.directory } }
      [] item.kind = "group" -> {}
RECURSIVE Entries(_, _)
Entries(item, docs) ==
    CASE item.kind = "link" ->
            { [label |-> item.label, href |-> item.link] }
      [] item.kind = "autogenerate" ->
            { [label |-> FieldValue(FrontMatter(d.lines), "title"), href |-> d.route] :
                d \in { x \in docs : x.dir = item.directory } }
      [] item.kind = "group" ->
            UNION { Entries(item.items[i], docs) : i \in 1..Len(item.items) }

\* The members of a finite set, listed in some order.
RECURSIVE SeqOf(_)
SeqOf(S) ==
    IF S = {} THEN << >>
    ELSE LET x == CHOOSE y \in S : TRUE
         IN  <<x>> \o SeqOf(S \ {x})

\* The sibling lists of the resolved sidebar tree, each as the list of its
\* labels: the list `items` itself, the lists inside its groups, and for an
\* `autogenerate` item one label per document found in its directory.  No
\* list is checked for repeated labels.
RECURSIVE SiblingLists(_, _)
SiblingLists(items, docs) ==
    { [i \in 1..Len(items) |-> items[i].label] }
    \cup UNION {
        CASE items[i].kind = "group" -> SiblingLists(items[i].items, docs)
          [] items[i].kind = "autogenerate" ->
                { LET found == SeqOf({ x \in docs : x.dir = items[i].directory })
                  IN  [k \in 1..Len(found) |->
                          FieldValue(FrontMatter(found[k].lines), "title")] }
          [] OTHER -> {}
        : i \in 1..Len(items) }

\* The site configuration handed to the renderer.
NoConfig ==
    [title |-> "", favicon |-> "", logo |-> [light |-> "", dark |-> ""],
     adapter |-> "", head |-> {}, sections |-> << >>]
Resolved(config) ==
    [title |-> config.title, favicon |-> config.favicon, logo |-> config.logo,
     adapter |-> config.adapter, head |-> config.head,
     sections |-> [i \in 1..Len(config.sidebar) |-> config.sidebar[i].label]]

\* What a directory of a run's workspace holds.
Absent ==
    [kind |-> "absent", commit |-> "", pages |-> {}, sidebar |-> {},
     config |-> NoConfig]
Partial(id) ==
    [kind |-> "partial", commit |-> id, pages |-> {}, sidebar |-> {},
     config |-> NoConfig]
Committed(id) ==
    [kind |-> "committed", commit |-> id, pages |-> {}, sidebar |-> {},
     config |-> NoConfig]

\* The result of building the documents `docs` of commit `id`: the build
\* fails as a whole when an entry fails the content schema; otherwise the
\* output holds one page per document and the resolved sidebar (`tree` is
\* the sidebar with its nesting).
Build(id, docs) ==
    LET ok == \A d \in docs : ValidEntry(d)
        config == ActiveConfig(id)
    IN  [ok |-> ok,
         site |-> IF ok
                    THEN [kind |-> "complete", commit |-> id,
                          pages |-> { d.route : d \in docs },
                          sidebar |-> UNION { Entries(config.sidebar[i], docs) :
                                                i \in 1..Len(config.sidebar) },
                          config |-> Resolved(config)]
                    ELSE Partial(id),
         tree |-> IF ok THEN SiblingLists(config.sidebar, docs) ELSE {}]

\* What `npm run build` yields for each commit.
Built == [id \in AllCommitIds |-> Build(id, Commits[id].docs)]

\* The directory the build of each commit writes.
OutDirOf == [id \in AllCommitIds |-> OutDir(ActiveConfig(id))]

\* The commits an event of the given kind is delivered with.  Only a push
\* has its commit checked out; for the other kinds one commit stands for all.
EventCommits(type) == IF type = "push" THEN CommitIds ELSE {"full"}
SiteEventCommits(type) == IF type = "push" THEN SiteCommitIds ELSE {"full"}

(***************************************************************************)
(* Workflow runs                                                           *)
(***************************************************************************)

Dirs == {DeployDir} \cup { OutDirOf[id] : id \in AllCommitIds }

NewRun(e, id) ==
    [event |-> e, commit |-> id, pc |-> 1, running |-> FALSE,
     outcome |-> [i \in 1..NSteps |-> "pending"],
     starts |-> [i \in 1..NSteps |-> 0],
     ws |-> [d \in Dirs |-> Absent],
     conclusion |-> "in_progress"]

\* Does the event start the workflow?
Triggers(type) == type \in On

\* A step failed and the failure counts against the job.
Failed(run, i) == run.outcome[i] = "failure" /\ ~Steps[i].continueOnError

\* The step's `if:` condition, evaluated when the job reaches it.
CondHolds(step, run) ==
    CASE step.cond = "success" -> \A j \in 1..(run.pc - 1) : ~Failed(run, j)
      [] step.cond = "failure" -> \E j \in 1..(run.pc - 1) : Failed(run, j)
      [] step.cond = "always"  -> TRUE

\* The step the job turns to after step pc ended: the next one in the
\* list, whatever the outcome.
NextPcRetry(pc, ok) == IF ok THEN pc + 1 ELSE pc
NextPc(pc, ok) == pc + 1

\* The job's result once its last step is behind it.
ConclusionOffByOne(run) ==
    IF run.pc <= NSteps + 1 THEN "in_progress"
    ELSE IF \E i \in 1..NSteps : Failed(run, i) THEN "failure" ELSE "success"
Conclusion(run) ==
    IF run.pc <= NSteps THEN "in_progress"
    ELSE IF \E i \in 1..NSteps : Failed(run, i) THEN "failure" ELSE "success"

Concluded(run) == [run EXCEPT !.conclusion = Conclusion(run)]

\* Can the step end with exit code 0 in this workspace?
CanSucceed(run, step) ==
    CASE step.action = "npm run build" ->
            Built[run.commit].ok
      [] step.action = "cloudflare/wrangler-action@v3" ->
            run.ws[DeployDir] # Absent
      [] OTHER -> TRUE

\* The workspace after the step ended.
Workspace(run, step, ok) ==
    CASE step.action = "actions/checkout@v4" /\ ok ->
            [d \in Dirs |->
                IF d = "dist" /\ Commits[run.commit].dist
                    THEN Committed(run.commit) ELSE Absent]
      [] step.action = "npm run build" /\ ok ->
            [run.ws EXCEPT ![OutDirOf[run.commit]] = Built[run.commit].site]
      [] step.action = "npm run build" /\ ~ok ->
            [run.ws EXCEPT ![OutDirOf[run.commit]] = Partial(run.commit)]
      [] OTHER -> run.ws

(***************************************************************************)
(* Actions                                                                 *)
(***************************************************************************)

Init ==
    /\ events = << >>
    /\ runs = << >>
    /\ deployments = << >>

\* The repository delivers an event; the workflow starts a run when its
\* `on:` list names the event.
Deliver(type, id) ==
    /\ Len(events) < MaxEvents
    /\ events' = Append(events, [type |-> type, commit |-> id])
    /\ runs' = IF Triggers(type)
                 THEN Append(runs, NewRun(Len(events) + 1, id))
                 ELSE runs
    /\ UNCHANGED deployments

\* The job reaches its next step and the step's condition holds.
StartStep(r) ==
    /\ runs[r].pc <= NSteps
    /\ ~runs[r].running
    /\ CondHolds(Steps[runs[r].pc], runs[r])
    /\ runs' = [runs EXCEPT ![r].running = TRUE,
                            ![r].starts[runs[r].pc] = @ + 1]
    /\ UNCHANGED <<events, deployments>>

\* The job reaches its next step and the step's condition fails.
SkipStep(r) ==
    /\ runs[r].pc <= NSteps
    /\ ~runs[r].running
    /\ ~CondHolds(Steps[runs[r].pc], runs[r])
    /\ runs' = [runs EXCEPT ![r] =
                  Concluded([runs[r] EXCEPT !.outcome[runs[r].pc] = "skipped",
                                            !.pc = runs[r].pc + 1])]
    /\ UNCHANGED <<events, deployments>>

\* The running step ends, with exit code 0 (ok) or not.
FinishStep(r, ok) ==
    LET run == runs[r]
        step == Steps[run.pc]
    IN  /\ run.pc <= NSteps
        /\ run.running
        /\ ok => CanSucceed(run, step)
        /\ runs' = [runs EXCEPT ![r] =
                      Concluded([run EXCEPT
                          !.running = FALSE,
                          !.outcome[run.pc] = IF ok THEN "success" ELSE "failure",
                          !.ws = Workspace(run, step, ok),
                          !.pc = NextPc(run.pc, ok)])]
        /\ deployments' =
              IF ok /\ step.action = "cloudflare/wrangler-action@v3"
                THEN Append(deployments,
                            [run |-> r, project |-> DeployProject,
                             dir |-> DeployDir, site |-> run.ws[DeployDir],
                             apiToken |-> DeployWith.apiToken,
                             accountId |-> DeployWith.accountId,
                             githubDeployment |-> RegistersDeployment(DeployWith)])
                ELSE deployments
        /\ UNCHANGED events

Next ==
    \/ \E type \in EventTypes : \E id \in EventCommits(type) : Deliver(type, id)
    \/ \E r \in 1..Len(runs) : StartStep(r)
    \/ \E r \in 1..Len(runs) : SkipStep(r)
    \/ \E r \in 1..Len(runs), ok \in BOOLEAN : FinishStep(r, ok)

Spec == Init /\ [][Next]_vars

\* The runner carries a job on as long as a step is left: a step that can
\* start starts, a step that is to be skipped is skipped, and a running
\* step returns.
Progress ==
    \/ \E r \in 1..Len(runs) : StartStep(r)
    \/ \E r \in 1..Len(runs) : SkipStep(r)
    \/ \E r \in 1..Len(runs), ok \in BOOLEAN : FinishStep(r, ok)

\* The workflow under that progress, with pushes of a commit whose run can
\* succeed and of one whose build fails.
LiveCommitIds == {"withDist", "untitled"}
LiveEventCommits(type) == IF type = "push" THEN LiveCommitIds ELSE {"full"}
LiveNext ==
    \/ \E type \in EventTypes : \E id \in LiveEventCommits(type) : Deliver(type, id)
    \/ Progress

FairSpec == Init /\ [][LiveNext]_vars /\ WF_vars(Progress)

\* The same workflow, with the pushes that vary the configuration and the
\* navigation.
SiteNext ==
    \/ \E type \in EventTypes : \E id \in SiteEventCommits(type) : Deliver(type, id)
    \/ \E r \in 1..Len(runs) : StartStep(r)
    \/ \E r \in 1..Len(runs) : SkipStep(r)
    \/ \E r \in 1..Len(runs), ok \in BOOLEAN : FinishStep(r, ok)

SiteSpec == Init /\ [][SiteNext]_vars

(***************************************************************************)
(* Properties                                                              *)
(***************************************************************************)

\* The pipeline's stages, in the order the specification gives them.
Stages == <<"Get Dependencies", "Build Astro site", "Deploy">>
Install == StepIndex("Get Dependencies")
BuildIx == StepIndex("Build Astro site")
Deploy  == StepIndex("Deploy")
StageIx == { StepIndex(Stages[k]) : k \in 1..Len(Stages) }

RunIds == 1..Len(runs)
Active(r, i) == runs[r].running /\ runs[r].pc = i
Started(r, i) == runs[r].starts[i] > 0
Ended(r, i) == runs[r].outcome[i] \in {"success", "failure"}
Done(r) == runs[r].pc > NSteps
OutputOf(r) == runs[r].ws[OutDirOf[runs[r].commit]]

\* C1: once a stage (dependency install, build, deploy) of a run has
\* failed, no step of that run is started any more; in particular a failed
\* build is never followed by a start of the deploy stage.
C1_NoStageAfterFailure ==
    [][ \A r \in RunIds :
          (\E i \in StageIx : runs[r].outcome[i] = "failure")
              => runs'[r].starts = runs[r].starts ]_vars

\* C1 witness: a run whose build failed has ended with the deploy stage
\* skipped and never started.
C1_Witness ==
    \E r \in RunIds :
        /\ runs[r].outcome[BuildIx] = "failure"
        /\ runs[r].outcome[Deploy] = "skipped"
        /\ ~Started(r, Deploy)
        /\ Done(r)

\* C2: within a run the stages run in the order install, build, deploy: a
\* stage has started only if every stage before it was started and has
\* ended, and no two stages of a run are active together.
C2_StrictOrder ==
    \A r \in RunIds :
        /\ \A a, b \in 1..Len(Stages) :
              (a < b /\ Started(r, StepIndex(Stages[b])))
                  => /\ Started(r, StepIndex(Stages[a]))
                     /\ Ended(r, StepIndex(Stages[a]))
                     /\ ~Active(r, StepIndex(Stages[a]))
        /\ Cardinality({ i \in StageIx : Active(r, i) }) <= 1

\* C2 witness: a run has gone through all three stages.
C2_Witness ==
    \E r \in RunIds :
        /\ \A i \in StageIx : Started(r, i) /\ Ended(r, i)
        /\ Done(r)

\* C3: whenever the deploy stage runs, the build of the same run has
\* succeeded and produced a complete output directory, and the directory
\* the deploy stage publishes is that output directory.
C3_DeployPublishesBuildOutput ==
    \A r \in RunIds :
        Started(r, Deploy)
            => /\ runs[r].outcome[BuildIx] = "success"
               /\ OutputOf(r).kind = "complete"
               /\ OutputOf(r).commit = runs[r].commit
               /\ DeployDir = OutDirOf[runs[r].commit]
               /\ runs[r].ws[DeployDir] = OutputOf(r)

\* C4: no stage is executed more than once in a run, and a run in which a
\* stage returned non-zero never ends successful: once its steps are behind
\* it, it is in the failed state.
C4_FailedRunNoRetry ==
    \A r \in RunIds :
        /\ \A i \in 1..NSteps : runs[r].starts[i] <= 1
        /\ (\E i \in StageIx : runs[r].outcome[i] = "failure")
              => /\ runs[r].conclusion # "success"
                 /\ Done(r) => runs[r].conclusion = "failure"

\* C4 witness: a run ended failed after its install stage ran once and
\* returned non-zero.
C4_Witness ==
    \E r \in RunIds :
        /\ runs[r].outcome[Install] = "failure"
        /\ runs[r].starts[Install] = 1
        /\ runs[r].conclusion = "failure"

\* C5: in every build that succeeded, every link of the resolved sidebar
\* targets the page of an existing Document.
C5_NavigationIntegrity ==
    \A r \in RunIds :
        runs[r].outcome[BuildIx] = "success"
            => \A e \in OutputOf(r).sidebar : e.href \in OutputOf(r).pages

\* C6: the runs are exactly the pushes: every push event started one run,
\* every run was started by a push event, and no event started two runs.
C6_PushOnly ==
    /\ Len(runs) = Cardinality({ e \in 1..Len(events) : events[e].type = "push" })
    /\ \A r \in RunIds :
          /\ runs[r].event \in 1..Len(events)
          /\ events[runs[r].event].type = "push"
          /\ events[runs[r].event].commit = runs[r].commit
    /\ \A r1, r2 \in RunIds : runs[r1].event = runs[r2].event => r1 = r2

\* C6 witness: a push and an event of another kind were delivered, and
\* there is one run.
C6_Witness ==
    /\ \E e \in 1..Len(events) : events[e].type = "push"
    /\ \E e \in 1..Len(events) : events[e].type # "push"
    /\ Len(runs) = 1

\* The front matter read from each Document of the corpus.
CorpusFrontMatter == [d \in Corpus |-> FrontMatter(d.lines)]

\* C7: every Document of the repository's corpus that a run has checked
\* out carries a non-empty title and a non-empty description in its front
\* matter.
C7_HeadTagCompleteness ==
    \A r \in RunIds :
        runs[r].outcome[1] = "success"
            => \A d \in Corpus \cap Commits[runs[r].commit].docs :
                  /\ HasField(CorpusFrontMatter[d], "title")
                  /\ HasField(CorpusFrontMatter[d], "description")

\* C7 witness: a run has built the three documents of the corpus, and the
\* front matter read from define-tables.mdx is that of its first block.
C7_Witness ==
    \E r \in RunIds :
        /\ runs[r].outcome[BuildIx] = "success"
        /\ Corpus \subseteq Commits[runs[r].commit].docs
        /\ \A d \in Corpus : d.route \in OutputOf(r).pages
        /\ FieldValue(CorpusFrontMatter[DefineTablesDoc], "title") = "Define Tables"

\* The documents of a run's commit that fail the content schema.
InvalidIn == [id \in AllCommitIds |-> { d \in Commits[id].docs : ~ValidEntry(d) }]
InvalidDocs(r) == InvalidIn[runs[r].commit]

\* C8 as stated: a Document that lacks a required front-matter field fails
\* only its own render; the pages of its sibling Documents are rendered all
\* the same once the build has ended.
C8_SiblingsUnaffected ==
    \A r \in RunIds :
        (InvalidDocs(r) # {} /\ Ended(r, BuildIx))
            => \A d \in Commits[runs[r].commit].docs \ InvalidDocs(r) :
                  d.route \in OutputOf(r).pages

\* C8 amended: a Document that lacks a required front-matter field is fatal
\* to the build as a whole, not only to its own render: the build stage never succeeds, no page of that
\* commit (sibling or not) is rendered, deploy is never started, nothing is
\* deployed, and the run ends failed.
C8_MissingFieldFailsBuild ==
    \A r \in RunIds :
        InvalidDocs(r) # {}
            => /\ runs[r].outcome[BuildIx] # "success"
               /\ OutputOf(r).pages = {}
               /\ ~Started(r, Deploy)
               /\ \A k \in 1..Len(deployments) : deployments[k].run # r
               /\ runs[r].conclusion # "success"

\* C8 witness: the build of a commit holding an untitled Document and valid
\* siblings has ended in failure and the run is over.
C8_Witness ==
    \E r \in RunIds :
        /\ UntitledDoc \in InvalidDocs(r)
        /\ Commits[runs[r].commit].docs \ InvalidDocs(r) # {}
        /\ runs[r].outcome[BuildIx] = "failure"
        /\ runs[r].conclusion = "failure"
\* A list holds no label twice.
UniqueLabels(list) ==
    \A i, j \in 1..Len(list) : list[i] = list[j] => i = j

\* C11: in the sidebar tree of every build that succeeded, no sibling list
\* (the top level, the inside of a Section, the children of an autogenerate
\* Section) holds the same label twice.
C11_SiblingLabelsUnique ==
    \A r \in RunIds :
        runs[r].outcome[BuildIx] = "success"
            => \A list \in Built[runs[r].commit].tree : UniqueLabels(list)
\* C12: the site a build produced carries one resolved configuration, and
\* every field of it (title, favicon, logo paths, adapter, head tags,
\* sidebar sections) is that of the latest config definition of the commit:
\* where an earlier definition differs, nothing of it is left.
C12_LatestConfigOnly ==
    \A r \in RunIds :
        runs[r].outcome[BuildIx] = "success"
            => LET cs == Commits[runs[r].commit].configs
                   latest == cs[Len(cs)]
                   got == OutputOf(r).config
               IN  /\ got.title = latest.title
                   /\ got.favicon = latest.favicon
                   /\ got.logo = latest.logo
                   /\ got.adapter = latest.adapter
                   /\ got.head = latest.head
                   /\ Len(got.sections) = Len(latest.sidebar)
                   /\ \A i \in 1..Len(latest.sidebar) :
                          got.sections[i] = latest.sidebar[i].label
                   /\ \A k \in 1..(Len(cs) - 1) :
                          /\ cs[k].logo # latest.logo => got.logo # cs[k].logo
                          /\ cs[k].adapter # latest.adapter
                                => got.adapter # cs[k].adapter

\* C12 witness: one run has built the earlier definition, another the
\* definition that replaced it, and the second site has the new logo paths,
\* the new adapter and the four sections.
C12_Witness ==
    \E r1, r2 \in RunIds :
        /\ runs[r1].outcome[BuildIx] = "success"
        /\ runs[r1].commit = "oldConfig"
        /\ OutputOf(r1).config.logo = OldConfig.logo
        /\ runs[r2].outcome[BuildIx] = "success"
        /\ Commits[runs[r2].commit].configs = <<OldConfig, Config>>
        /\ OutputOf(r2).config.logo = Config.logo
        /\ OutputOf(r2).config.logo # OldConfig.logo
        /\ OutputOf(r2).config.adapter = "@astrojs/vercel/static"
        /\ Len(OutputOf(r2).config.sections) = 4
\* The autogenerate items of a sidebar, at any depth.
RECURSIVE AutoItems(_)
AutoItems(items) ==
    UNION { CASE items[i].kind = "autogenerate" -> { items[i] }
              [] items[i].kind = "group" -> AutoItems(items[i].items)
              [] OTHER -> {}
            : i \in 1..Len(items) }

\* Every document some commit holds.
KnownDocs == UNION { Commits[id].docs : id \in AllCommitIds }

\* C13: in every build that succeeded, the sidebar entries under an
\* autogenerate Section's directory are exactly the Documents the commit
\* holds in that directory, one entry per Document labelled by its title;
\* the Section itself declares a label and a directory and no child list.
C13_AutogenerateFromDirectory ==
    \A r \in RunIds :
        runs[r].outcome[BuildIx] = "success"
            => \A item \in AutoItems(ActiveConfig(runs[r].commit).sidebar) :
                  /\ DOMAIN item = {"kind", "label", "directory"}
                  /\ { e \in OutputOf(r).sidebar :
                         \E d \in KnownDocs :
                            d.dir = item.directory /\ d.route = e.href }
                     = { [label |-> FieldValue(FrontMatter(d.lines), "title"),
                          href |-> d.route] :
                            d \in { x \in Commits[runs[r].commit].docs :
                                      x.dir = item.directory } }

\* C13 witness: two builds of the same configuration succeeded, one of a
\* commit that holds one more page under storage/database; the page has an
\* entry in that build's sidebar and none in the other's.
C13_Witness ==
    \E r1, r2 \in RunIds :
        /\ runs[r1].outcome[BuildIx] = "success"
        /\ runs[r2].outcome[BuildIx] = "success"
        /\ ActiveConfig(runs[r1].commit) = ActiveConfig(runs[r2].commit)
        /\ SameTitleDoc \in Commits[runs[r2].commit].docs \ Commits[runs[r1].commit].docs
        /\ \E e \in OutputOf(r2).sidebar : e.href = SameTitleDoc.route
        /\ \A e \in OutputOf(r1).sidebar : e.href # SameTitleDoc.route
        /\ \E e \in OutputOf(r1).sidebar : e.href = AboutDoc.route

\* C14: a build of the scenario (title "Sizzle Starter", one Section "Get
\* Started" holding one Link to /get-started, and the Document the Link
\* targets) that succeeded holds exactly one page, /get-started, and the
\* sidebar holds exactly one entry, "Get Started" with target /get-started.
C14_GetStartedScenario ==
    \A r \in RunIds :
        ( /\ runs[r].outcome[BuildIx] = "success"
          /\ ActiveConfig(runs[r].commit) = ScenarioConfig )
            => /\ OutputOf(r).config.title = "Sizzle Starter"
               /\ OutputOf(r).pages = {"/get-started"}
               /\ OutputOf(r).sidebar =
                    { [label |-> "Get Started", href |-> "/get-started"] }
               /\ { e.href : e \in OutputOf(r).sidebar } \subseteq OutputOf(r).pages

\* C14 witness: the scenario has been built.
C14_Witness ==
    \E r \in RunIds :
        /\ runs[r].outcome[BuildIx] = "success"
        /\ ActiveConfig(runs[r].commit) = ScenarioConfig
        /\ Commits[runs[r].commit].docs = {GetStartedDoc}
        /\ OutputOf(r).kind = "complete"
\* C15: every deployment publishes the output directory of its run's build
\* under the project identifier, with the API token and the account
\* identifier, and has a deployment record registered exactly when the
\* step is given a repository token.
C15_DeployInputs ==
    \A k \in 1..Len(deployments) :
        LET d == deployments[k]
        IN  /\ d.project = "sizzle-starter-docs"
            /\ d.apiToken = "secrets.CLOUDFLARE_API_TOKEN"
            /\ d.accountId = "secrets.CLOUDFLARE_ACCOUNT_ID"
            /\ d.githubDeployment <=> (DeployWith.gitHubToken # "")
            /\ d.dir = OutDirOf[runs[d.run].commit]
            /\ d.site = OutputOf(d.run)
            /\ d.site.kind = "complete"
\* C17: every run that was started eventually reaches a terminal state,
\* success or failure, and stays in it unchanged; it is success exactly
\* when the three stages all returned zero, and failure exactly when some
\* step of the run (the checkout or a stage) returned non-zero.
C17_RunsTerminate ==
    /\ \A r \in 1..MaxEvents :
          (Len(runs) >= r)
              ~> (Len(runs) >= r /\ runs[r].conclusion \in {"success", "failure"})
    /\ [][ \A r \in RunIds :
              runs[r].conclusion # "in_progress" => runs'[r] = runs[r] ]_vars
    /\ [](\A r \in RunIds :
              /\ runs[r].conclusion # "in_progress" <=> Done(r)
              /\ runs[r].conclusion = "success"
                    <=> (Done(r) /\ \A i \in StageIx : runs[r].outcome[i] = "success")
              /\ runs[r].conclusion = "failure"
                    <=> (Done(r) /\ \E i \in 1..NSteps : runs[r].outcome[i] = "failure"))

\* C17 witness: one run has ended in success and another in failure.
C17_Witness ==
    \E r1, r2 \in RunIds :
        /\ runs[r1].conclusion = "success"
        /\ \A i \in StageIx : runs[r1].starts[i] = 1
        /\ runs[r2].conclusion = "failure"
        /\ Done(r1) /\ Done(r2)
\* C18: with runs overlapping in time, every deployment of a run is the
\* complete output built from the commit of that run's own push, a step
\* taken by one run changes no other run, and a run that is not over can
\* always take its next step, whatever became of the others.
C18_RunsDoNotInterfere ==
    /\ [](\A k \in 1..Len(deployments) :
              LET d == deployments[k]
              IN  /\ d.site.kind = "complete"
                  /\ d.site.commit = runs[d.run].commit
                  /\ d.site = Built[runs[d.run].commit].site)
    /\ [][ \A r1, r2 \in RunIds :
              (r1 # r2 /\ runs'[r1] # runs[r1]) => runs'[r2] = runs[r2] ]_vars
    /\ [](\A r \in RunIds :
              ~Done(r) => ENABLED (\/ StartStep(r)
                                   \/ SkipStep(r)
                                   \/ FinishStep(r, FALSE)))
====
